---- MODULE Spec2Model ----
(***************************************************************************)
(* State-machine model of the askRiti regulation search service:           *)
(*   src/api/main.py    the query engine and the retrieve operation main   *)
(*   src/api/server.py  the POST /regsearch route search_docs              *)
(*                                                                         *)
(* A Python dict is modelled as the set of its <<key, value>> pairs, so    *)
(* that a missing key is a real case (d[k] raises KeyError).               *)
(***************************************************************************)
EXTENDS Integers, Sequences, FiniteSets

\* ---------------------------------------------------------------- bounds
\* Number of HTTP requests the model serves (each may overlap the others);
\* request r is the r-th to arrive.
NumRequests == 3
\* Largest number of chunks stored in the remote vector index.
MaxIndexSize == 8

Requests == 1..NumRequests

\* ---------------------------------------------------------------- dicts
HasKey(d, k) == \E p \in d : p[1] = k
Get(d, k) == (CHOOSE p \in d : p[1] = k)[2]

Min(a, b) == IF a < b THEN a ELSE b
Max(a, b) == IF a > b THEN a ELSE b

\* ---------------------------------------------------------------- inputs
\* Query strings a client may send; "" is a str and so a valid `query`.
Queries == {"", "q1", "q2"}

\* JSON request bodies: with the `query` field, or without it.
Bodies == {{}} \cup {{<<"query", q>>} : q \in Queries}

\* A chunk as the retrieval service returns it (NodeWithScore): its text and
\* its metadata dict.
Node(text, metadata) == [text |-> text, metadata |-> metadata]

\* The chunks an index may hold: well-formed chunks (two of them equal, one
\* with an extra metadata key), a chunk with empty text, path and date, and
\* two chunks whose metadata lacks one of the keys main reads.
Corpus ==
  << Node("t1", {<<"file_path", "a.pdf">>, <<"last_modified_date", "2024-01-01">>}),
     Node("t2", {<<"file_path", "b.pdf">>, <<"last_modified_date", "2024-02-02">>}),
     Node("t1", {<<"file_path", "a.pdf">>, <<"last_modified_date", "2024-01-01">>}),
     Node("",   {<<"file_path", "">>,      <<"last_modified_date", "">>}),
     Node("t3", {<<"file_path", "c.pdf">>, <<"last_modified_date", "2024-03-03">>,
                 <<"file_name", "c.pdf">>}),
     Node("t4", {<<"file_path", "d.pdf">>, <<"last_modified_date", "2024-04-04">>}),
     Node("t5", {<<"last_modified_date", "2024-05-05">>}),
     Node("t6", {<<"file_path", "f.pdf">>}) >>

\* An index populated with the first n chunks of the corpus (cyclically).
IndexOfSize(n) == [i \in 1..n |-> Corpus[((i - 1) % Len(Corpus)) + 1]]

\* ---------------------------------------------------------------- state
VARIABLES
  query_engine,     \* main.py:21 the process-wide CitationQueryEngine
  index,            \* main.py:17 content of the remote index "cdsco"
  pc,               \* per request: "idle", "awaiting" (at the await) or "done"
  body,             \* per request: the JSON body posted
  sent,             \* per request: the query passed to aretrieve
  calls,            \* per request: number of aretrieve calls issued
  peak_inflight,    \* largest number of requests suspended at the await at once
  retrieval,        \* per request: "none", "pending", "ok" or "failed"
  retrieved_nodes,  \* per request: main's local retrieved_nodes
  status,           \* per request: HTTP status of the response (0: none yet)
  resp              \* per request: JSON array of the response

vars == <<query_engine, index, pc, body, sent, calls, peak_inflight, retrieval,
          retrieved_nodes, status, resp>>

\* ---------------------------------------------------------------- main.py
QueryEngineConfigDefaultK == [citation_chunk_size |-> 1024, similarity_top_k |-> 10]

\* CitationQueryEngine.from_args(index, citation_chunk_size=1024, similarity_top_k=5)
QueryEngineConfig == [citation_chunk_size |-> 1024, similarity_top_k |-> 5]

\* Rank of a query's embedding against the stored chunks: a fixed function
\* of the query and the index (nearest first).
QueryOffset(q) == IF q = "" THEN 0 ELSE IF q = "q1" THEN 5 ELSE 7

Rank(idx, q) ==
  [i \in 1..Len(idx) |-> idx[((i - 1 + QueryOffset(q)) % Len(idx)) + 1]]

aretrieveConsuming(engine, idx, q) ==
  [nodes  |-> SubSeq(Rank(idx, q), 1, Min(engine.similarity_top_k, Len(idx))),
   engine |-> [engine EXCEPT !.similarity_top_k = Min(@, Len(idx)) - 1]]

\* query_engine.aretrieve(query): the similarity_top_k nearest chunks, and the
\* engine as the call leaves it.
aretrieve(engine, idx, q) ==
  [nodes  |-> SubSeq(Rank(idx, q), 1, Min(engine.similarity_top_k, Len(idx))),
   engine |-> engine]

\* node.metadata['file_path'] or node.metadata['last_modified_date'] raises.
KeyError(node) ==
  \/ ~HasKey(node.metadata, "file_path")
  \/ ~HasKey(node.metadata, "last_modified_date")

NodeRecordTitled(node) ==
  [url            |-> Get(node.metadata, "file_path"),
   title          |-> IF HasKey(node.metadata, "file_name")
                      THEN Get(node.metadata, "file_name") ELSE "",
   content        |-> node.text,
   published_date |-> Get(node.metadata, "last_modified_date"),
   author         |-> "cdsco"]

\* The dict literal main appends for one node.
NodeRecord(node) ==
  [url            |-> Get(node.metadata, "file_path"),
   title          |-> "",
   content        |-> node.text,
   published_date |-> Get(node.metadata, "last_modified_date"),
   author         |-> "cdsco"]

RECURSIVE ForLoopSkipping(_, _)
ForLoopSkipping(nodes, response) ==
  IF nodes = << >> THEN [raised |-> FALSE, value |-> response]
  ELSE IF KeyError(Head(nodes)) THEN ForLoopSkipping(Tail(nodes), response)
  ELSE ForLoopSkipping(Tail(nodes), Append(response, NodeRecord(Head(nodes))))

RECURSIVE ForLoopDedup(_, _)
ForLoopDedup(nodes, response) ==
  IF nodes = << >> THEN [raised |-> FALSE, value |-> response]
  ELSE IF KeyError(Head(nodes)) THEN [raised |-> TRUE, value |-> << >>]
  ELSE IF \E i \in 1..Len(response) : response[i] = NodeRecord(Head(nodes))
       THEN ForLoopDedup(Tail(nodes), response)
  ELSE ForLoopDedup(Tail(nodes), Append(response, NodeRecord(Head(nodes))))

\* for node in retrieved_nodes: response.append({...}); a KeyError ends main
\* and discards the response built so far.
RECURSIVE ForLoop(_, _)
ForLoop(nodes, response) ==
  IF nodes = << >> THEN [raised |-> FALSE, value |-> response]
  ELSE IF KeyError(Head(nodes)) THEN [raised |-> TRUE, value |-> << >>]
  ELSE ForLoop(Tail(nodes), Append(response, NodeRecord(Head(nodes))))

MainBodyPrintingTop(nodes) ==
  IF nodes = << >> THEN [raised |-> TRUE, value |-> << >>]
  ELSE ForLoop(nodes, << >>)

\* main after the await: response = []; the loop; return response.
MainBody(nodes) == ForLoop(nodes, << >>)

\* ---------------------------------------------------------------- server.py
\* class QueryRequest(BaseModel): query: str  -- the field is required and
\* any str, the empty one included, is accepted.
QueryRequest(b) == HasKey(b, "query")

\* class DocumentResponse(BaseModel): the five str fields kept by response_model.
DocumentResponse(d) ==
  [url |-> d.url, title |-> d.title, content |-> d.content,
   published_date |-> d.published_date, author |-> d.author]

Serialize(results) == [i \in 1..Len(results) |-> DocumentResponse(results[i])]

InFlight == {r \in Requests : pc[r] = "awaiting"}

\* Requests are numbered in their order of arrival.
NextToArrive(r) == pc[r] = "idle" /\ \A o \in 1..(r - 1) : pc[o] # "idle"

SentQueryShared(r, b) ==
  IF InFlight \ {r} # {}
  THEN sent[CHOOSE o \in InFlight \ {r} : TRUE]
  ELSE Get(b, "query")

\* results = await main(request.query): the query argument of request r's call.
SentQuery(r, b) == Get(b, "query")

UnhandledExceptionSwallowed == [status |-> 200, resp |-> << >>]

\* search_docs has no try/except: an exception of main leaves the route and
\* the framework answers 500 without a record list.
UnhandledException == [status |-> 500, resp |-> << >>]

\* ---------------------------------------------------------------- Init
Init ==
  /\ query_engine = QueryEngineConfig
  /\ \E n \in 0..MaxIndexSize : index = IndexOfSize(n)
  /\ pc = [r \in Requests |-> "idle"]
  /\ body = [r \in Requests |-> {}]
  /\ sent = [r \in Requests |-> ""]
  /\ calls = [r \in Requests |-> 0]
  /\ peak_inflight = 0
  /\ retrieval = [r \in Requests |-> "none"]
  /\ retrieved_nodes = [r \in Requests |-> << >>]
  /\ status = [r \in Requests |-> 0]
  /\ resp = [r \in Requests |-> << >>]

\* ---------------------------------------------------------------- actions
\* POST /regsearch with a body QueryRequest rejects: 422, search_docs not run.
PostInvalid(r, b) ==
  /\ NextToArrive(r)
  /\ ~QueryRequest(b)
  /\ body' = [body EXCEPT ![r] = b]
  /\ pc' = [pc EXCEPT ![r] = "done"]
  /\ status' = [status EXCEPT ![r] = 422]
  /\ UNCHANGED <<query_engine, index, sent, calls, peak_inflight, retrieval,
                 retrieved_nodes, resp>>

\* POST /regsearch with a valid body: search_docs calls main, which issues
\* query_engine.aretrieve(query) and is suspended at the await.
PostValid(r, b) ==
  /\ NextToArrive(r)
  /\ QueryRequest(b)
  /\ body' = [body EXCEPT ![r] = b]
  /\ sent' = [sent EXCEPT ![r] = SentQuery(r, b)]
  /\ calls' = [calls EXCEPT ![r] = @ + 1]
  /\ peak_inflight' = Max(peak_inflight, Cardinality(InFlight \cup {r}))
  /\ retrieval' = [retrieval EXCEPT ![r] = "pending"]
  /\ pc' = [pc EXCEPT ![r] = "awaiting"]
  /\ UNCHANGED <<query_engine, index, retrieved_nodes, status, resp>>

\* The awaited call raises (network, auth, quota): the exception propagates
\* through main and search_docs.
RetrieveFail(r) ==
  /\ pc[r] = "awaiting"
  /\ retrieval' = [retrieval EXCEPT ![r] = "failed"]
  /\ pc' = [pc EXCEPT ![r] = "done"]
  /\ status' = [status EXCEPT ![r] = UnhandledException.status]
  /\ resp' = [resp EXCEPT ![r] = UnhandledException.resp]
  /\ UNCHANGED <<query_engine, index, body, sent, calls, peak_inflight,
                 retrieved_nodes>>

\* The awaited call returns: main builds the records and returns them (or
\* raises KeyError), and the route serializes the result.
RetrieveOk(r) ==
  LET got == aretrieve(query_engine, index, sent[r])
      out == MainBody(got.nodes)
  IN /\ pc[r] = "awaiting"
     /\ query_engine' = got.engine
     /\ retrieval' = [retrieval EXCEPT ![r] = "ok"]
     /\ retrieved_nodes' = [retrieved_nodes EXCEPT ![r] = got.nodes]
     /\ pc' = [pc EXCEPT ![r] = "done"]
     /\ IF out.raised
        THEN /\ status' = [status EXCEPT ![r] = UnhandledException.status]
             /\ resp' = [resp EXCEPT ![r] = UnhandledException.resp]
        ELSE /\ status' = [status EXCEPT ![r] = 200]
             /\ resp' = [resp EXCEPT ![r] = Serialize(out.value)]
     /\ UNCHANGED <<index, body, sent, calls, peak_inflight>>

Next ==
  \/ \E r \in Requests, b \in Bodies : PostInvalid(r, b)
  \/ \E r \in Requests, b \in Bodies : PostValid(r, b)
  \/ \E r \in Requests : RetrieveFail(r)
  \/ \E r \in Requests : RetrieveOk(r)

Spec == Init /\ [][Next]_vars

\* ================================================================ claims
Done(r) == pc[r] = "done"
QueryOf(r) == Get(body[r], "query")
Posted(r) == pc[r] # "idle" /\ HasKey(body[r], "query")

\* C1: a successful POST /regsearch with a non-empty query returns at most
\* 5 records, 5 being the similarity_top_k the query engine is built with.
C1_AtMostTopK ==
  \A r \in Requests :
    (Posted(r) /\ QueryOf(r) # "" /\ status[r] = 200) => Len(resp[r]) <= 5

\* A non-empty query answered with exactly 5 records from an index that
\* holds more than 5 chunks.
C1_Witness ==
  \E r \in Requests :
    /\ Posted(r) /\ QueryOf(r) # "" /\ status[r] = 200
    /\ Len(index) > 5 /\ Len(resp[r]) = 5

\* C2: a request whose `query` is missing or empty gets a client-error
\* response and causes no call to the retrieval service.
C2_EmptyQueryRejected ==
  \A r \in Requests :
    (pc[r] # "idle" /\ (~HasKey(body[r], "query") \/ QueryOf(r) = ""))
      => /\ calls[r] = 0
         /\ Done(r) => status[r] \in 400..499

\* C3: when the retrieval call of a request fails, the request ends with an
\* HTTP error, without a record list, after exactly one retrieval call.
C3_FailurePropagates ==
  \A r \in Requests :
    /\ calls[r] <= 1
    /\ retrieval[r] = "failed"
         => /\ Done(r) /\ status[r] \in 400..599
            /\ resp[r] = << >> /\ calls[r] = 1

C3_Witness ==
  \E r \in Requests :
    retrieval[r] = "failed" /\ status[r] = 500 /\ Len(index) > 0

\* C4: a successful response has one record per retrieved chunk, in the
\* chunks' order, record i carrying path, text and date of chunk i.
C4_OneRecordPerChunk ==
  \A r \in Requests :
    status[r] = 200 =>
      /\ Len(resp[r]) = Len(retrieved_nodes[r])
      /\ \A i \in 1..Len(resp[r]) :
           /\ resp[r][i].url = Get(retrieved_nodes[r][i].metadata, "file_path")
           /\ resp[r][i].content = retrieved_nodes[r][i].text
           /\ resp[r][i].published_date =
                Get(retrieved_nodes[r][i].metadata, "last_modified_date")

\* A successful response holding two equal records around a different one.
C4_Witness ==
  \E r \in Requests :
    /\ status[r] = 200 /\ Len(resp[r]) >= 3
    /\ resp[r][1] = resp[r][3] /\ resp[r][1] # resp[r][2]

\* C5: every returned record has title "" and author "cdsco".
C5_TitleAuthorConstant ==
  \A r \in Requests : \A i \in 1..Len(resp[r]) :
    resp[r][i].title = "" /\ resp[r][i].author = "cdsco"

\* A returned record built from a chunk whose metadata has a file name.
C5_Witness ==
  \E r \in Requests : \E i \in 1..Len(resp[r]) :
    /\ status[r] = 200
    /\ HasKey(retrieved_nodes[r][i].metadata, "file_name")

\* C6: every record returned for a non-empty query has non-empty content
\* and non-empty url.
C6_NonEmptyContentUrl ==
  \A r \in Requests :
    (Posted(r) /\ QueryOf(r) # "" /\ status[r] = 200) =>
      \A i \in 1..Len(resp[r]) :
        resp[r][i].content # "" /\ resp[r][i].url # ""

\* C7: two requests with the same query, both answered by the retrieval
\* service, end with the same status and the same ordered record list,
\* whatever other requests were served before, between or during them.
C7_SameQuerySameRecords ==
  \A r1, r2 \in Requests :
    (/\ retrieval[r1] = "ok" /\ retrieval[r2] = "ok"
     /\ QueryOf(r1) = QueryOf(r2))
      => status[r1] = status[r2] /\ resp[r1] = resp[r2]

\* The same query answered twice with records, and another query answered
\* with different records.
C7_Witness ==
  \E r1, r2, r3 \in Requests :
    /\ r1 # r2
    /\ status[r1] = 200 /\ status[r2] = 200 /\ status[r3] = 200
    /\ QueryOf(r1) = QueryOf(r2) /\ QueryOf(r3) # QueryOf(r1)
    /\ resp[r1] # << >> /\ resp[r3] # resp[r1]

\* C8: with requests interleaving at the await, the nodes a request gets are
\* those of its own query and each of its records is built from one of them;
\* the query engine and the index stay as initialized.
C8_OwnNodes(r) == aretrieve(QueryEngineConfig, index, QueryOf(r)).nodes

C8_Isolation ==
  /\ [](/\ query_engine = QueryEngineConfig
        /\ \A r \in Requests :
             retrieval[r] = "ok" =>
               /\ sent[r] = QueryOf(r)
               /\ retrieved_nodes[r] = C8_OwnNodes(r)
               /\ \A i \in 1..Len(resp[r]) :
                    \E j \in 1..Len(C8_OwnNodes(r)) :
                      /\ ~KeyError(C8_OwnNodes(r)[j])
                      /\ resp[r][i] = NodeRecord(C8_OwnNodes(r)[j]))
  /\ [][query_engine' = query_engine /\ index' = index]_vars

\* All requests were suspended at the await at once, and two of them, with
\* different queries, were answered with different records.
C8_Witness ==
  /\ peak_inflight = NumRequests
  /\ \E r1, r2 \in Requests :
       /\ status[r1] = 200 /\ status[r2] = 200
       /\ QueryOf(r1) # QueryOf(r2)
       /\ resp[r1] # << >> /\ resp[r2] # << >> /\ resp[r1] # resp[r2]

\* C9: when the retrieval service returns no chunk, the request ends with
\* status 200 and the empty array.
C9_EmptyResultIsSuccess ==
  \A r \in Requests :
    (retrieval[r] = "ok" /\ retrieved_nodes[r] = << >>)
      => status[r] = 200 /\ resp[r] = << >>

C9_Witness ==
  \E r \in Requests :
    retrieval[r] = "ok" /\ retrieved_nodes[r] = << >> /\ status[r] = 200

\* C10: if any retrieved chunk lacks file_path or last_modified_date, the
\* request ends with an error and no record, the records of earlier
\* well-formed chunks included.
C10_AllOrNothing ==
  \A r \in Requests :
    (/\ retrieval[r] = "ok"
     /\ \E i \in 1..Len(retrieved_nodes[r]) : KeyError(retrieved_nodes[r][i]))
      => status[r] \in 400..599 /\ resp[r] = << >>

\* A failed request whose first chunk was well-formed and a later one not.
C10_Witness ==
  \E r \in Requests :
    /\ retrieval[r] = "ok" /\ status[r] = 500
    /\ Len(retrieved_nodes[r]) >= 2
    /\ ~KeyError(retrieved_nodes[r][1])
    /\ \E i \in 2..Len(retrieved_nodes[r]) : KeyError(retrieved_nodes[r][i])

====
